---- MODULE Spec2Model ----
(***************************************************************************)
(* Verification model of the coding-rules corpus (rules 57-63).            *)
(*                                                                         *)
(* The corpus is a set of independent demonstration programs.  The model   *)
(* holds one of them at a time: `prog' is chosen in Init and selects the   *)
(* program (or the call harness for a program's exported functions) whose  *)
(* steps Next then takes.                                                  *)
(*                                                                         *)
(* Heap model (rule 60).  Every new-expression appends a record to `heap'; *)
(* `by' is the namespace ("module") whose code contains the new-expression *)
(* and `fn' the function; `frees' lists, in order, the namespace m and     *)
(* function f of each delete-expression applied to the object.  `uaf' is   *)
(* set when the object is read or written after its first deallocation.    *)
(***************************************************************************)
EXTENDS Integers, Sequences, FiniteSets, TLC

VARIABLES
    prog,      \* the program or harness being run
    pc,        \* position in that program's main / harness
    heap,      \* sequence of allocation records
    ref,       \* pointer-valued locals and members: name -> heap index, 0 = nullptr
    mem,       \* contents of the objects the programs read and write: name -> value
    out,       \* what the program has printed so far
    ncalls,    \* number of harness calls made so far (harness programs only)
    counter,   \* internalCounter of module.c ("c") and of module.cpp ("cpp")
    ret,       \* what the last call on module.c / module.cpp returned
    allocFailed, \* some allocation inside module.cpp has failed so far
    args,      \* the arguments of the last call on module.c / module.cpp / mylib
    succ,      \* successful process calls since the last initialize / cleanup
    acc,       \* per namespace-scope variable: the <<operation, thread>> pairs that touched it
    lastError, \* the thread_local std::string lastError, one instance per thread
    th,        \* per thread: position in processData, pending exception, results
    cache,     \* mylib's file-local std::vector<CacheEntry>
    tus,       \* the translation units of the program being built
    objs,      \* per compiled translation unit: the definitions in its object file
    symtab,    \* the linker's count of definitions per external-linkage name
    status,    \* "none" before the link, then "linked" or "multiple definition"
    resolved   \* the outcome of the last name lookup

----------------------------------------------------------------------------
(* Bounds *)

MaxCalls == 3      \* calls a harness makes on exported functions
MaxThreadCalls == 2  \* calls of processData the threads make between them
MaxLength == 2     \* largest length argument handed to module_process
NumThreads == 2    \* threads calling the error-code interface
NumWhats == 2      \* distinct e.what() texts internalProcess may throw with
MaxTUs == 3        \* translation units of user code added to a build
MaxBuffer == 3     \* largest bufferSize handed to module_a::processData
MaxInput == 3      \* longest input string handed to module_a::processData
MaxSize == 2       \* largest size a SafeContainer is constructed with

----------------------------------------------------------------------------
(* Heap primitives *)

NoRefs == [n \in {} |-> 0]

\* new-expression in function f of namespace m creating an object of kind k
Alloc(h, k, m, f) ==
    Append(h, [kind |-> k, by |-> m, fn |-> f, frees |-> <<>>, uaf |-> FALSE])

\* delete-expression in function f of namespace m applied to pointer i
\* (deleting nullptr is a no-op)
Free(h, i, m, f) ==
    IF i = 0 THEN h ELSE [h EXCEPT ![i].frees = Append(@, [m |-> m, f |-> f])]

\* read or write through pointer i
Access(h, i) == [h EXCEPT ![i].uaf = @ \/ (h[i].frees # <<>>)]

Bind(r, n, i) == [x \in (DOMAIN r) \cup {n} |-> IF x = n THEN i ELSE r[x]]

\* an exception leaves main (no handler anywhere): std::terminate
Terminate == pc' = "terminated"

\* what the steps of one program leave alone in the state of the others
buildVars  == <<tus, objs, symtab, status>>
heapOnly   == UNCHANGED <<counter, ret, allocFailed, args, succ, acc, lastError, th, cache,
                          buildVars, resolved>>
moduleOnly == UNCHANGED <<ref, mem, out, lastError, th, cache, buildVars, resolved>>
errOnly    == UNCHANGED <<heap, ref, mem, out, counter, ret, allocFailed, args, succ,
                          cache, buildVars, resolved>>
mylibOnly  == UNCHANGED <<heap, ref, mem, counter, ret, allocFailed, succ, lastError, th,
                          buildVars, resolved>>
buildOnly  == UNCHANGED <<heap, ref, mem, counter, ret, allocFailed, args, succ, acc,
                          lastError, th, cache, resolved>>
lookupOnly == UNCHANGED <<heap, ref, mem, out, counter, ret, allocFailed, args, succ,
                          acc, lastError, th, cache, buildVars>>

Indet == -1        \* an indeterminate (never written) byte or int

RECURSIVE Fill(_, _)
Fill(n, v) == IF n = 0 THEN <<>> ELSE Append(Fill(n - 1, v), v)

----------------------------------------------------------------------------
(* rule_60/good_example.cpp *)

ToUpper(c) == IF c >= 97 /\ c <= 122 THEN c - 32 ELSE c

HelloWorld == <<104, 101, 108, 108, 111, 32, 119, 111, 114, 108, 100>>

\* strncpy(outputBuffer, input, strlen(input)): the terminator is not copied
StrCpy_no_terminator(buf, input) ==
    [i \in DOMAIN buf |-> IF i <= Len(input) THEN input[i] ELSE buf[i]]

\* strcpy(outputBuffer, input): input's bytes followed by the NUL terminator
StrCpy(buf, input) ==
    [i \in DOMAIN buf |-> IF i <= Len(input) THEN input[i]
                          ELSE IF i = Len(input) + 1 THEN 0 ELSE buf[i]]

\* the size check written with > instead of >=
processData_gt(buf, bufferSize, input) ==
    LET inputLen == Len(input) IN
    IF inputLen > bufferSize
    THEN [ok |-> FALSE, buf |-> buf]
    ELSE LET copied == StrCpy(buf, input) IN
         [ok  |-> TRUE,
          buf |-> [i \in DOMAIN copied |->
                      IF i <= inputLen THEN ToUpper(copied[i]) ELSE copied[i]]]

\* module_a::processData: [ok, buf] for a buffer of bufferSize bytes holding buf
processData(buf, bufferSize, input) ==
    LET inputLen == Len(input) IN
    IF inputLen >= bufferSize
    THEN [ok |-> FALSE, buf |-> buf]
    ELSE LET copied == StrCpy(buf, input) IN
         [ok  |-> TRUE,
          buf |-> [i \in DOMAIN copied |->
                      IF i <= inputLen THEN ToUpper(copied[i]) ELSE copied[i]]]

\* the query answering strlen(input), without the byte for the terminator
getRequiredBufferSize_strlen(input) == Len(input)

getRequiredBufferSize(input) == Len(input) + 1

\* set written with <= instead of <
SafeSet_le(c, index, value) ==
    IF index <= c.size THEN [c EXCEPT !.data[index + 1] = value] ELSE c

\* SafeContainer::set / SafeContainer::get on a container [data, size]
SafeSet(c, index, value) ==
    IF index < c.size THEN [c EXCEPT !.data[index + 1] = value] ELSE c

SafeGet(c, index) == IF index < c.size THEN c.data[index + 1] ELSE 0

\* SafeContainer(size) over the memory new int[size] returned: the
\* constructor's loop zeroes elements 0..size-1
SafeNew(memory, size) ==
    [data |-> [i \in DOMAIN memory |-> IF i <= size THEN 0 ELSE memory[i]],
     size |-> size]

\* data_ == nullptr
NullData == <<>>

\* a move constructor that copies the members and leaves `other' as it was
SafeMove_keeping_other(other) == [to |-> other, from |-> other]

\* SafeContainer(SafeContainer&& other): the new object `to' and what is
\* left of `other'
SafeMove(other) ==
    [to   |-> [data |-> other.data, size |-> other.size],
     from |-> [data |-> NullData, size |-> 0]]

G(label) == prog = "good60" /\ pc = label

\* module_b::useBuffer, first statement: module_a::Buffer::create(1024)
useBuffer_create ==
    /\ G("ex1_create")
    /\ \/ /\ heap' = Alloc(Alloc(heap, "Buffer", "module_a", "Buffer::create"),
                          "Buffer.data_", "module_a", "Buffer::Buffer")
          /\ ref' = Bind(Bind(ref, "buffer", Len(heap) + 1), "buffer.data_", Len(heap) + 2)
          /\ pc' = "ex1_size"
       \/ \* operator new for the Buffer throws std::bad_alloc
          /\ UNCHANGED <<heap, ref>> /\ Terminate
       \/ \* new char[size] in the constructor throws; whether the new-expression
          \* releases the Buffer's storage before std::terminate is implementation-defined
          /\ \E released \in BOOLEAN :
                heap' = IF released
                        THEN Free(Alloc(heap, "Buffer", "module_a", "Buffer::create"),
                                  Len(heap) + 1, "module_a", "Buffer::create")
                        ELSE Alloc(heap, "Buffer", "module_a", "Buffer::create")
          /\ UNCHANGED ref /\ Terminate
    /\ UNCHANGED <<prog, mem, out, ncalls>>
    /\ heapOnly

\* std::cout << buffer->size()
useBuffer_size ==
    /\ G("ex1_size")
    /\ heap' = Access(heap, ref["buffer"])
    /\ out' = Append(out, 1024)
    /\ pc' = "ex1_destroy"
    /\ UNCHANGED <<prog, ref, mem, ncalls>>
    /\ heapOnly

\* useBuffer written with `delete buffer' in module_b instead of Buffer::destroy
useBuffer_delete_in_b ==
    /\ G("ex1_destroy")
    /\ heap' = Free(Free(Access(heap, ref["buffer"]),
                         ref["buffer.data_"], "module_a", "Buffer::~Buffer"),
                    ref["buffer"], "module_b", "useBuffer")
    /\ pc' = "ex2_ctor"
    /\ UNCHANGED <<prog, ref, mem, out, ncalls>>
    /\ heapOnly

\* module_a::Buffer::destroy(buffer): ~Buffer frees data_, then the Buffer is freed
useBuffer_destroy ==
    /\ G("ex1_destroy")
    /\ heap' = Free(Free(Access(heap, ref["buffer"]),
                         ref["buffer.data_"], "module_a", "Buffer::~Buffer"),
                    ref["buffer"], "module_a", "Buffer::destroy")
    /\ pc' = "ex2_ctor"
    /\ UNCHANGED <<prog, ref, mem, out, ncalls>>
    /\ heapOnly

\* module_a::Data data;   (Data::Data allocates the DataImpl{0})
Data_ctor ==
    /\ G("ex2_ctor")
    /\ \/ /\ heap' = Alloc(heap, "DataImpl", "module_a", "Data::Data")
          /\ ref' = Bind(ref, "data.impl_", Len(heap) + 1)
          /\ mem' = Bind(mem, "impl.value", 0)
          /\ pc' = "ex2_set"
       \/ /\ UNCHANGED <<heap, ref, mem>> /\ Terminate
    /\ UNCHANGED <<prog, out, ncalls>>
    /\ heapOnly

\* data.setValue(42)
Data_setValue ==
    /\ G("ex2_set")
    /\ heap' = Access(heap, ref["data.impl_"])
    /\ mem' = Bind(mem, "impl.value", 42)
    /\ pc' = "ex2_get"
    /\ UNCHANGED <<prog, ref, out, ncalls>>
    /\ heapOnly

\* std::cout << data.getValue()
Data_getValue ==
    /\ G("ex2_get")
    /\ heap' = Access(heap, ref["data.impl_"])
    /\ out' = Append(out, mem["impl.value"])
    /\ pc' = "ex2_dtor"
    /\ UNCHANGED <<prog, ref, mem, ncalls>>
    /\ heapOnly

\* Data with the destructor the compiler generates: impl_ is not deleted
Data_dtor_implicit ==
    /\ G("ex2_dtor")
    /\ pc' = "ex3_make"
    /\ UNCHANGED <<prog, heap, ref, mem, out, ncalls>>
    /\ heapOnly

\* end of the block: Data::~Data deletes impl_
Data_dtor ==
    /\ G("ex2_dtor")
    /\ heap' = Free(heap, ref["data.impl_"], "module_a", "Data::~Data")
    /\ pc' = "ex3_make"
    /\ UNCHANGED <<prog, ref, mem, out, ncalls>>
    /\ heapOnly

\* ResourceDeleter::operator()(r): destroyResource(r), which does `delete r'
ResourceDeleter(h, r) == Free(h, r, "module_a", "destroyResource")

\* ~unique_ptr<Resource, ResourceDeleter>: the deleter runs unless the pointer is null
unique_ptr_dtor(h, p) == IF p = 0 THEN h ELSE ResourceDeleter(h, p)

\* a smart pointer whose move leaves the source pointing at the object
unique_ptr_copy(r, from, to) == Bind(r, to, r[from])

\* unique_ptr's move constructor: `to' takes the pointer, `from' becomes null
unique_ptr_move(r, from, to) == Bind(Bind(r, to, r[from]), from, 0)

\* module_b::useResource: auto resource = module_a::makeResource(42)
\* createResource allocates and fills the Resource, makeResource wraps it in
\* a ResourcePtr and returns it; the returned object is moved into `resource'
\* and destroyed (a step the compiler may elide)
useResource_make ==
    /\ G("ex3_make")
    /\ \/ LET r      == Len(heap) + 1
              made   == Access(Alloc(heap, "Resource", "module_a", "createResource"), r)
              result == Bind(ref, "makeResource.result", r)
              moved  == unique_ptr_move(result, "makeResource.result", "resource") IN
          /\ heap' = unique_ptr_dtor(made, moved["makeResource.result"])
          /\ ref' = moved
          /\ mem' = Bind(mem, "resource.id", 42)
          /\ pc' = "ex3_use"
       \/ /\ UNCHANGED <<heap, ref, mem>> /\ Terminate
    /\ UNCHANGED <<prog, out, ncalls>>
    /\ heapOnly

\* std::cout << resource->buffer     ("Resource <id>")
useResource_use ==
    /\ G("ex3_use")
    /\ heap' = Access(heap, ref["resource"])
    /\ out' = Append(out, mem["resource.id"])
    /\ pc' = "ex3_exit"
    /\ UNCHANGED <<prog, ref, mem, ncalls>>
    /\ heapOnly

\* scope exit: ~unique_ptr calls ResourceDeleter, which calls module_a::destroyResource
useResource_exit ==
    /\ G("ex3_exit")
    /\ heap' = unique_ptr_dtor(heap, ref["resource"])
    /\ ref' = Bind(ref, "resource", 0)
    /\ pc' = "ex4_alloc"
    /\ UNCHANGED <<prog, mem, out, ncalls>>
    /\ heapOnly

\* module_b::useProcessData: size = getRequiredBufferSize(input); buffer = new char[size]
useProcessData_alloc ==
    /\ G("ex4_alloc")
    /\ \/ /\ heap' = Alloc(heap, "char[]", "module_b", "useProcessData")
          /\ ref' = Bind(ref, "pd.buffer", Len(heap) + 1)
          /\ mem' = Bind(Bind(mem, "pd.size", getRequiredBufferSize(HelloWorld)),
                         "pd.buffer", Fill(getRequiredBufferSize(HelloWorld), Indet))
          /\ pc' = "ex4_process"
       \/ /\ UNCHANGED <<heap, ref, mem>> /\ Terminate
    /\ UNCHANGED <<prog, out, ncalls>>
    /\ heapOnly

\* if (module_a::processData(buffer, size, input))
useProcessData_process ==
    /\ G("ex4_process")
    /\ LET r == processData(mem["pd.buffer"], mem["pd.size"], HelloWorld) IN
         /\ mem' = Bind(Bind(mem, "pd.buffer", r.buf), "pd.ok", r.ok)
         /\ heap' = IF r.ok THEN Access(heap, ref["pd.buffer"]) ELSE heap
         /\ pc' = IF r.ok THEN "ex4_print" ELSE "ex4_delete"
    /\ UNCHANGED <<prog, ref, out, ncalls>>
    /\ heapOnly

\* std::cout << "Processed: " << buffer
useProcessData_print ==
    /\ G("ex4_print")
    /\ heap' = Access(heap, ref["pd.buffer"])
    /\ out' = Append(out, mem["pd.buffer"])
    /\ pc' = "ex4_delete"
    /\ UNCHANGED <<prog, ref, mem, ncalls>>
    /\ heapOnly

\* delete[] buffer   (in module_b)
useProcessData_delete ==
    /\ G("ex4_delete")
    /\ heap' = Free(heap, ref["pd.buffer"], "module_b", "useProcessData")
    /\ pc' = "ex5_create"
    /\ UNCHANGED <<prog, ref, mem, out, ncalls>>
    /\ heapOnly

\* client_code::useProcessor: proc = dll_interface::createProcessor()
useProcessor_create ==
    /\ G("ex5_create")
    /\ \/ /\ heap' = Alloc(heap, "ImageProcessorImpl", "dll_interface", "createProcessor")
          /\ ref' = Bind(ref, "proc", Len(heap) + 1)
          /\ pc' = "ex5_process"
       \/ /\ UNCHANGED <<heap, ref>> /\ Terminate
    /\ UNCHANGED <<prog, mem, out, ncalls>>
    /\ heapOnly

\* proc->process()
useProcessor_process ==
    /\ G("ex5_process")
    /\ heap' = Access(heap, ref["proc"])
    /\ out' = Append(out, "Processing image in DLL...")
    /\ pc' = "ex5_release"
    /\ UNCHANGED <<prog, ref, mem, ncalls>>
    /\ heapOnly

\* useProcessor calling proc->release() first and proc->process() after it
useProcessor_release_then_process ==
    /\ G("ex5_release")
    /\ heap' = Access(Free(Access(heap, ref["proc"]), ref["proc"],
                           "dll_interface", "ImageProcessorImpl::release"),
                      ref["proc"])
    /\ pc' = "ex6_ctor"
    /\ UNCHANGED <<prog, ref, mem, out, ncalls>>
    /\ heapOnly

\* proc->release(): ImageProcessorImpl::release does `delete this'
useProcessor_release ==
    /\ G("ex5_release")
    /\ heap' = Free(Access(heap, ref["proc"]), ref["proc"],
                    "dll_interface", "ImageProcessorImpl::release")
    /\ pc' = "ex6_ctor"
    /\ UNCHANGED <<prog, ref, mem, out, ncalls>>
    /\ heapOnly

\* module_a::SafeContainer container(10)
SafeContainer_ctor ==
    /\ G("ex6_ctor")
    /\ \/ /\ heap' = Access(Alloc(heap, "int[]", "module_a", "SafeContainer::SafeContainer"), Len(heap) + 1)
          /\ ref' = Bind(ref, "container.data_", Len(heap) + 1)
          /\ mem' = Bind(mem, "container", [data |-> Fill(10, 0), size |-> 10])
          /\ pc' = "ex6_set"
       \/ /\ UNCHANGED <<heap, ref, mem>> /\ Terminate
    /\ UNCHANGED <<prog, out, ncalls>>
    /\ heapOnly

\* container.set(0, 100)
SafeContainer_set ==
    /\ G("ex6_set")
    /\ heap' = IF 0 < mem["container"].size
               THEN Access(heap, ref["container.data_"]) ELSE heap
    /\ mem' = Bind(mem, "container", SafeSet(mem["container"], 0, 100))
    /\ pc' = "ex6_get"
    /\ UNCHANGED <<prog, ref, out, ncalls>>
    /\ heapOnly

\* std::cout << container.get(0)
SafeContainer_get ==
    /\ G("ex6_get")
    /\ heap' = IF 0 < mem["container"].size
               THEN Access(heap, ref["container.data_"]) ELSE heap
    /\ out' = Append(out, SafeGet(mem["container"], 0))
    /\ pc' = "ex6_dtor"
    /\ UNCHANGED <<prog, ref, mem, ncalls>>
    /\ heapOnly

\* end of the block: ~SafeContainer does delete[] data_; main returns 0
SafeContainer_dtor ==
    /\ G("ex6_dtor")
    /\ heap' = Free(heap, ref["container.data_"], "module_a", "SafeContainer::~SafeContainer")
    /\ pc' = "done"
    /\ UNCHANGED <<prog, ref, mem, out, ncalls>>
    /\ heapOnly

----------------------------------------------------------------------------
(* module_a::processData and getRequiredBufferSize called on any buffer and *)
(* any input ("pdapi"), one call a run.  The memory handed over is the      *)
(* caller's buffer of bufferSize bytes followed by one byte that belongs to *)
(* something else, so that a write past the end of the buffer shows.        *)

Chars == {97, 66, 49}            \* 'a', 'B', '1'
Bytes == {Indet, 120}            \* what the buffer holds before the call

Inputs == UNION {[1..n -> Chars] : n \in 0..MaxInput}

PdApi == prog = "pdapi" /\ pc = "api"

\* module_a::processData(outputBuffer, bufferSize, input)
call_processData ==
    /\ PdApi
    /\ \E bufferSize \in 0..MaxBuffer, input \in Inputs :
         \E before \in [1..(bufferSize + 1) -> Bytes] :
            LET r == processData(before, bufferSize, input) IN
            mem' = Bind(mem, "call",
                        [fn |-> "processData", before |-> before,
                         bufferSize |-> bufferSize, input |-> input,
                         ok |-> r.ok, after |-> r.buf])
    /\ pc' = "returned"
    /\ UNCHANGED <<prog, heap, ref, out, ncalls>>
    /\ heapOnly

\* the protocol of module_b::useProcessData on any input: the buffer has the
\* size getRequiredBufferSize answers, or (smaller) one byte less
query_then_process ==
    /\ PdApi
    /\ \E input \in Inputs, smaller \in BOOLEAN :
         LET size   == getRequiredBufferSize(input) - (IF smaller THEN 1 ELSE 0)
             before == Fill(size + 1, Indet)
             r      == processData(before, size, input) IN
            mem' = Bind(mem, "call",
                        [fn |-> IF smaller THEN "one byte smaller" ELSE "query then process",
                         before |-> before, bufferSize |-> size, input |-> input,
                         ok |-> r.ok, after |-> r.buf])
    /\ pc' = "returned"
    /\ UNCHANGED <<prog, heap, ref, out, ncalls>>
    /\ heapOnly

----------------------------------------------------------------------------
(* module_a::SafeContainer constructed with any size, then set, read, moved *)
(* from and destroyed ("scapi").  mem["source"] is the constructed object,  *)
(* mem["dest"] the one move-constructed from it.  The memory behind data_   *)
(* is the array followed by one int that belongs to something else.         *)
(* mem["last"] keeps, per object, the value most recently passed to set for *)
(* each index, and mem["op"] the last call made.                            *)

Values == {7, 9}

ScApi(label) == prog = "scapi" /\ pc \in label

Zeros(n) == [i \in 0..n |-> 0]

\* SafeContainer source(n)
container_new ==
    /\ ScApi({"api"})
    /\ \E n \in 0..MaxSize :
         /\ heap' = Access(Alloc(heap, "int[]", "module_a", "SafeContainer::SafeContainer"),
                           Len(heap) + 1)
         /\ ref' = Bind(ref, "source", Len(heap) + 1)
         /\ mem' = Bind(Bind(Bind(Bind(mem, "n", n),
                                   "source", SafeNew(Fill(n + 1, Indet), n)),
                              "last", [o \in {"source"} |-> Zeros(n)]),
                         "op", [fn |-> "new", on |-> "source", index |-> 0,
                                value |-> 0, result |-> 0])
    /\ pc' = "live"
    /\ UNCHANGED <<prog, out, ncalls>>
    /\ heapOnly

\* the objects alive at a position
Alive == IF pc = "live" THEN {"source"} ELSE {"source", "dest"}

\* o.set(index, value)
container_set ==
    /\ ScApi({"live", "moved"}) /\ ncalls < MaxCalls
    /\ \E o \in Alive, index \in 0..mem["n"], value \in Values :
         /\ mem' = Bind(Bind(Bind(mem, o, SafeSet(mem[o], index, value)),
                              "last", [mem["last"] EXCEPT ![o][index] = value]),
                         "op", [fn |-> "set", on |-> o, index |-> index,
                                value |-> value, result |-> 0])
         /\ heap' = IF index < mem[o].size THEN Access(heap, ref[o]) ELSE heap
    /\ ncalls' = ncalls + 1
    /\ UNCHANGED <<prog, pc, ref, out>>
    /\ heapOnly

\* o.get(index)
container_get ==
    /\ ScApi({"live", "moved"}) /\ ncalls < MaxCalls
    /\ \E o \in Alive, index \in 0..mem["n"] :
         /\ mem' = Bind(mem, "op", [fn |-> "get", on |-> o, index |-> index,
                                    value |-> 0, result |-> SafeGet(mem[o], index)])
         /\ heap' = IF index < mem[o].size THEN Access(heap, ref[o]) ELSE heap
    /\ ncalls' = ncalls + 1
    /\ UNCHANGED <<prog, pc, ref, out>>
    /\ heapOnly

\* SafeContainer dest(std::move(source))
container_move ==
    /\ ScApi({"live"})
    /\ LET m == SafeMove(mem["source"]) IN
         /\ mem' = Bind(Bind(Bind(Bind(mem, "dest", m.to), "source", m.from),
                              "last", [o \in {"source", "dest"} |-> mem["last"]["source"]]),
                         "op", [fn |-> "move", on |-> "dest", index |-> 0,
                                value |-> 0, result |-> 0])
         /\ ref' = Bind(Bind(ref, "dest", ref["source"]),
                        "source", IF m.from.data = NullData THEN 0 ELSE ref["source"])
    /\ pc' = "moved"
    /\ UNCHANGED <<prog, heap, out, ncalls>>
    /\ heapOnly

\* end of the scope: ~SafeContainer of every object, the last constructed first
container_destroy ==
    /\ ScApi({"live", "moved"})
    /\ heap' = LET h == IF pc = "moved"
                        THEN Free(heap, ref["dest"], "module_a",
                                  "SafeContainer::~SafeContainer")
                        ELSE heap
               IN Free(h, ref["source"], "module_a", "SafeContainer::~SafeContainer")
    /\ pc' = "destroyed"
    /\ UNCHANGED <<prog, ref, mem, out, ncalls>>
    /\ heapOnly

----------------------------------------------------------------------------
(* rule_60/bad_example.cpp                                                  *)
(* "bad60"    : main as written (the calls into module_b are commented out) *)
(* "bad60api" : a caller that obtains an object from its factory and hands  *)
(*              it to the function that consumes it                         *)

BadMain(label) == prog = "bad60" /\ pc = label
BadApi(label)  == prog = "bad60api" /\ pc = label

\* module_a::createBuffer(size)
createBuffer ==
    /\ \/ /\ BadMain("b1_create")
          /\ \/ /\ heap' = Alloc(heap, "char[]", "module_a", "createBuffer")
                /\ ref' = Bind(ref, "buf", Len(heap) + 1)
                /\ pc' = "b1_delete"
             \/ /\ UNCHANGED <<heap, ref>> /\ Terminate
          /\ UNCHANGED ncalls
       \/ /\ BadApi("api") /\ ncalls < MaxCalls
          /\ heap' = Alloc(heap, "char[]", "module_a", "createBuffer")
          /\ ref' = Bind(ref, "buf", Len(heap) + 1)
          /\ pc' = "api_buffer"
          /\ ncalls' = ncalls + 1
    /\ UNCHANGED <<prog, mem, out>>
    /\ heapOnly

\* main, example 1: delete[] buf
main_deleteBuf ==
    /\ BadMain("b1_delete")
    /\ heap' = Free(heap, ref["buf"], "main", "main")
    /\ pc' = "b2_create"
    /\ UNCHANGED <<prog, ref, mem, out, ncalls>>
    /\ heapOnly

\* processAndCleanup that only processes and leaves the buffer to its owner
processAndCleanup_no_delete ==
    /\ BadApi("api_buffer")
    /\ out' = Append(out, "Processing buffer...")
    /\ pc' = "api"
    /\ UNCHANGED <<prog, heap, ref, mem, ncalls>>
    /\ heapOnly

\* module_b::processAndCleanup(buffer)
processAndCleanup ==
    /\ BadApi("api_buffer")
    /\ out' = Append(out, "Processing buffer...")
    /\ heap' = Free(heap, ref["buf"], "module_b", "processAndCleanup")
    /\ pc' = "api"
    /\ UNCHANGED <<prog, ref, mem, ncalls>>
    /\ heapOnly

\* module_a::createString(str)
createString ==
    /\ BadApi("api") /\ ncalls < MaxCalls
    /\ heap' = Alloc(heap, "std::string", "module_a", "createString")
    /\ ref' = Bind(ref, "str", Len(heap) + 1)
    /\ pc' = "api_string"
    /\ ncalls' = ncalls + 1
    /\ UNCHANGED <<prog, mem, out>>
    /\ heapOnly

\* module_b::useString(str)
useString ==
    /\ BadApi("api_string")
    /\ out' = Append(out, "Using string")
    /\ heap' = Free(Access(heap, ref["str"]), ref["str"], "module_b", "useString")
    /\ pc' = "api"
    /\ UNCHANGED <<prog, ref, mem, ncalls>>
    /\ heapOnly

\* module_a::DataContainer::create(n)
DataContainer_create ==
    /\ \/ /\ BadMain("b2_create")
          /\ \/ /\ heap' = Alloc(Alloc(heap, "DataContainer", "module_a", "DataContainer::create"),
                                  "DataContainer.data", "module_a", "DataContainer::create")
                /\ ref' = Bind(Bind(ref, "container", Len(heap) + 1),
                               "container.data", Len(heap) + 2)
                /\ pc' = "b2_delete"
             \/ \* new DataContainer() throws
                /\ UNCHANGED <<heap, ref>> /\ Terminate
             \/ \* new int[n] throws: the container is never released
                /\ heap' = Alloc(heap, "DataContainer", "module_a", "DataContainer::create")
                /\ UNCHANGED ref /\ Terminate
          /\ UNCHANGED ncalls
       \/ /\ BadApi("api") /\ ncalls < MaxCalls
          /\ heap' = Alloc(Alloc(heap, "DataContainer", "module_a", "DataContainer::create"),
                            "DataContainer.data", "module_a", "DataContainer::create")
          /\ ref' = Bind(Bind(ref, "container", Len(heap) + 1),
                         "container.data", Len(heap) + 2)
          /\ pc' = "api_container"
          /\ ncalls' = ncalls + 1
    /\ UNCHANGED <<prog, mem, out>>
    /\ heapOnly

\* main, example 2: delete[] container->data; delete container; then return 0
main_deleteContainer ==
    /\ BadMain("b2_delete")
    /\ heap' = Free(Free(Access(heap, ref["container"]),
                         ref["container.data"], "main", "main"),
                    ref["container"], "main", "main")
    /\ pc' = "done"
    /\ UNCHANGED <<prog, ref, mem, out, ncalls>>
    /\ heapOnly

\* module_b::processContainer(container)
processContainer ==
    /\ BadApi("api_container")
    /\ heap' = Free(Free(Access(Access(heap, ref["container"]), ref["container.data"]),
                         ref["container.data"], "module_b", "processContainer"),
                    ref["container"], "module_b", "processContainer")
    /\ pc' = "api"
    /\ UNCHANGED <<prog, ref, mem, out, ncalls>>
    /\ heapOnly

\* module_a::allocateString()
allocateString ==
    /\ BadApi("api") /\ ncalls < MaxCalls
    /\ heap' = Alloc(heap, "std::string", "module_a", "allocateString")
    /\ ref' = Bind(ref, "str", Len(heap) + 1)
    /\ pc' = "api_allocated"
    /\ ncalls' = ncalls + 1
    /\ UNCHANGED <<prog, mem, out>>
    /\ heapOnly

\* module_b::deleteString(str)
deleteString ==
    /\ BadApi("api_allocated")
    /\ heap' = Free(heap, ref["str"], "module_b", "deleteString")
    /\ pc' = "api"
    /\ UNCHANGED <<prog, ref, mem, out, ncalls>>
    /\ heapOnly

\* module_a::createArray(size)
createArray ==
    /\ BadApi("api") /\ ncalls < MaxCalls
    /\ heap' = Alloc(heap, "int[]", "module_a", "createArray")
    /\ ref' = Bind(ref, "arr", Len(heap) + 1)
    /\ pc' = "api_array"
    /\ ncalls' = ncalls + 1
    /\ UNCHANGED <<prog, mem, out>>
    /\ heapOnly

\* module_b::cleanupArray(arr)
cleanupArray ==
    /\ BadApi("api_array")
    /\ heap' = Free(heap, ref["arr"], "module_b", "cleanupArray")
    /\ pc' = "api"
    /\ UNCHANGED <<prog, ref, mem, out, ncalls>>
    /\ heapOnly

\* client_code::useProcessor(): createProcessor(), proc->process(), delete proc
bad_useProcessor ==
    /\ BadApi("api") /\ ncalls < MaxCalls
    /\ heap' = Free(Access(Alloc(heap, "ProcessorImpl", "dll_interface", "createProcessor"),
                           Len(heap) + 1),
                    Len(heap) + 1, "client_code", "useProcessor")
    /\ ref' = Bind(ref, "proc", Len(heap) + 1)
    /\ out' = Append(out, "Processing in DLL...")
    /\ ncalls' = ncalls + 1
    /\ UNCHANGED <<prog, pc, mem>>
    /\ heapOnly

----------------------------------------------------------------------------
(* Namespace-scope variables and who touches them *)

Threads == {ToString(i) : i \in 1..NumThreads}

NamespaceVars ==
    {<<"internalCounter", "module.c">>, <<"internalCounter", "module.cpp">>,
     <<"cache", "mylib">>}
    \cup {<<"lastError", t>> : t \in Threads}

Touch(a, v, op, t) == [a EXCEPT ![v] = @ \cup {<<op, t>>}]

----------------------------------------------------------------------------
(* MISRA-C.md, "Example: Module Interface Design": module.c and module.cpp  *)
(* driven by the same sequence of calls                                     *)
(* internalCounter is an int32_t.  A run starts either with the modules     *)
(* freshly loaded or after INT32_MAX - 1 successful process calls, so that  *)
(* the increment reaches the width of the type within MaxCalls calls.       *)

INT32_MAX == 2147483647
INT32_MIN == -INT32_MAX - 1

\* internalCounter++ on an int32_t: past INT32_MAX the stored value wraps
\* (signed overflow; the increment of a memory operand on two's-complement
\* targets)
Inc32(x) == IF x = INT32_MAX THEN INT32_MIN ELSE x + 1

\* module_error_t and module::ErrorCode enumerator values
CVal(code) ==
    CASE code = "MODULE_SUCCESS"           -> 0
      [] code = "MODULE_ERR_INVALID_INPUT" -> -1
      [] code = "MODULE_ERR_NOMEM"         -> -2

CppVal(code) ==
    CASE code = "SUCCESS"       -> 0
      [] code = "INVALID_INPUT" -> -1
      [] code = "OUT_OF_MEMORY" -> -2

\* module.c
module_initialize(c) == [counter |-> 0, ret |-> "MODULE_SUCCESS"]

\* module_process counting the call before it checks its arguments
module_process_count_first(c, data, length) ==
    IF data = "NULL" \/ length = 0
    THEN [counter |-> Inc32(c), ret |-> "MODULE_ERR_INVALID_INPUT"]
    ELSE [counter |-> Inc32(c), ret |-> "MODULE_SUCCESS"]

module_process(c, data, length) ==
    IF data = "NULL" \/ length = 0
    THEN [counter |-> c, ret |-> "MODULE_ERR_INVALID_INPUT"]
    ELSE [counter |-> Inc32(c), ret |-> "MODULE_SUCCESS"]

module_cleanup(c) == [counter |-> 0, ret |-> "void"]

\* BufferManager::BufferManager(size): buffer_ = new char[size]
BufferManager_ctor(h) ==
    Alloc(h, "BufferManager.buffer_", "module", "BufferManager::BufferManager")

\* a BufferManager whose destructor does not release buffer_
BufferManager_dtor_empty(h, i) == h

\* BufferManager::~BufferManager(): delete[] buffer_
BufferManager_dtor(h, i) == Free(h, i, "module", "BufferManager::~BufferManager")

\* module.cpp; h is the heap, allocOk tells whether new char[size] succeeds
cpp_initialize(c) == [counter |-> 0, ret |-> "SUCCESS"]

\* the input check written with && instead of ||
cpp_process_and(c, h, data, length, allocOk) ==
    IF data = "NULL" /\ length = 0
    THEN [counter |-> c, ret |-> "INVALID_INPUT", heap |-> h]
    ELSE IF ~allocOk
    THEN [counter |-> c, ret |-> "OUT_OF_MEMORY", heap |-> h]
    ELSE [counter |-> Inc32(c), ret |-> "SUCCESS",
          heap |-> BufferManager_dtor(BufferManager_ctor(h), Len(h) + 1)]

cpp_process(c, h, data, length, allocOk) ==
    IF data = "NULL" \/ length = 0
    THEN [counter |-> c, ret |-> "INVALID_INPUT", heap |-> h]
    ELSE IF ~allocOk
    THEN \* BufferManager's constructor throws std::bad_alloc: no object, no destructor
         [counter |-> c, ret |-> "OUT_OF_MEMORY", heap |-> h]
    ELSE [counter |-> Inc32(c), ret |-> "SUCCESS",
          heap |-> BufferManager_dtor(BufferManager_ctor(h), Len(h) + 1)]

cpp_cleanup(c) == [counter |-> 0, ret |-> "void"]

NoArgs == [data |-> "none", length |-> 0]

\* the count of successful calls is kept as `before' the run started plus,
\* per module, those made in the run; initialize and cleanup start it afresh
NoSuccesses == [before |-> 0, c |-> 0, cpp |-> 0]

Mod == prog = "module" /\ pc = "api" /\ ncalls < MaxCalls

TouchBoth(a, op) ==
    Touch(Touch(a, <<"internalCounter", "module.c">>, "module_" \o op, "main"),
          <<"internalCounter", "module.cpp">>, "module::" \o op, "main")

initialize ==
    /\ Mod
    /\ LET c == module_initialize(counter.c)
           p == cpp_initialize(counter.cpp) IN
         /\ counter' = [c |-> c.counter, cpp |-> p.counter]
         /\ ret' = [call |-> "initialize", c |-> c.ret, cpp |-> p.ret]
    /\ args' = NoArgs
    /\ succ' = NoSuccesses
    /\ acc' = TouchBoth(acc, "initialize")
    /\ ncalls' = ncalls + 1
    /\ UNCHANGED <<prog, pc, heap, allocFailed>>
    /\ moduleOnly

process ==
    /\ Mod
    /\ \E data \in {"NULL", "valid"}, length \in 0..MaxLength, allocOk \in BOOLEAN :
         LET c == module_process(counter.c, data, length)
             p == cpp_process(counter.cpp, heap, data, length, allocOk) IN
         /\ counter' = [c |-> c.counter, cpp |-> p.counter]
         /\ ret' = [call |-> "process", c |-> c.ret, cpp |-> p.ret]
         /\ args' = [data |-> data, length |-> length]
         /\ succ' = [succ EXCEPT
                        !.c = IF c.ret = "MODULE_SUCCESS" THEN @ + 1 ELSE @,
                        !.cpp = IF p.ret = "SUCCESS" THEN @ + 1 ELSE @]
         /\ heap' = p.heap
         /\ allocFailed' = (allocFailed \/ p.ret = "OUT_OF_MEMORY")
         /\ acc' = LET a == IF c.ret = "MODULE_SUCCESS"
                              THEN Touch(acc, <<"internalCounter", "module.c">>,
                                         "module_process", "main")
                              ELSE acc
                   IN IF p.ret = "SUCCESS"
                      THEN Touch(a, <<"internalCounter", "module.cpp">>,
                                 "module::process", "main")
                      ELSE a
    /\ ncalls' = ncalls + 1
    /\ UNCHANGED <<prog, pc>>
    /\ moduleOnly

cleanup ==
    /\ Mod
    /\ LET c == module_cleanup(counter.c)
           p == cpp_cleanup(counter.cpp) IN
         /\ counter' = [c |-> c.counter, cpp |-> p.counter]
         /\ ret' = [call |-> "cleanup", c |-> c.ret, cpp |-> p.ret]
    /\ args' = NoArgs
    /\ succ' = NoSuccesses
    /\ acc' = TouchBoth(acc, "cleanup")
    /\ ncalls' = ncalls + 1
    /\ UNCHANGED <<prog, pc, heap, allocFailed>>
    /\ moduleOnly

----------------------------------------------------------------------------
(* MISRA-C.md, Rule 62 "Example (good)": processData / getLastError, called *)
(* from several threads                                                     *)

Whats == {"what" \o ToString(i) : i \in 1..NumWhats}

\* lastError declared without thread_local: one instance for all threads
SlotOfGlobal(t) == "1"

\* thread_local: every thread names its own instance of lastError
SlotOf(t) == t

\* no call of processData made yet
NoCall == [data |-> "none", size |-> 0, thrown |-> "none"]

Idle == [pc |-> "idle", pend |-> "none", ret |-> "none", got |-> "none", lastFail |-> "",
         call |-> NoCall]

Err(t) == prog = "errapi" /\ pc = "run" /\ th[t].pc = "idle"

\* the handler processData enters for a pending exception: <<message, code>>
Handler(pend) ==
    CASE pend = "bad_alloc" -> <<"Out of memory", "OUT_OF_MEMORY">>
      [] pend \in Whats     -> <<pend, "PROCESSING_ERROR">>
      [] OTHER              -> <<"Unknown error", "PROCESSING_ERROR">>

\* a processData that clears lastError when internalProcess returns
processData_try_clearing(t) ==
    /\ Err(t) /\ ncalls < MaxThreadCalls
    /\ ncalls' = ncalls + 1
    /\ \E data \in {"NULL", "valid"}, size \in 0..1, assignOk \in BOOLEAN,
          thrown \in {"none", "bad_alloc", "unknown"} \cup Whats :
         IF data = "NULL" \/ size = 0
         THEN LET c == [data |-> data, size |-> size, thrown |-> "not invoked"] IN
              IF assignOk
              THEN /\ lastError' = [lastError EXCEPT ![SlotOf(t)] = "Invalid input"]
                   /\ th' = [th EXCEPT ![t] = [@ EXCEPT !.ret = "INVALID_INPUT",
                                                         !.got = "none",
                                                         !.lastFail = "Invalid input",
                                                         !.call = c]]
                   /\ acc' = Touch(acc, <<"lastError", SlotOf(t)>>, "processData", t)
              ELSE /\ th' = [th EXCEPT ![t] = [@ EXCEPT !.pc = "catch", !.pend = "bad_alloc",
                                                         !.got = "none", !.call = c]]
                   /\ UNCHANGED <<lastError, acc>>
         ELSE LET c == [data |-> data, size |-> size, thrown |-> thrown] IN
              IF thrown = "none"
              THEN /\ th' = [th EXCEPT ![t] = [@ EXCEPT !.ret = "SUCCESS", !.got = "none",
                                                         !.call = c]]
                   /\ lastError' = [lastError EXCEPT ![SlotOf(t)] = ""]
                   /\ acc' = Touch(acc, <<"lastError", SlotOf(t)>>, "processData", t)
              ELSE /\ th' = [th EXCEPT ![t] = [@ EXCEPT !.pc = "catch", !.pend = thrown,
                                                         !.got = "none", !.call = c]]
                   /\ UNCHANGED <<lastError, acc>>
    /\ UNCHANGED <<prog, pc>>
    /\ errOnly

\* processData(data, size): the try block.  assignOk tells whether the
\* std::string assignment succeeds (it throws std::bad_alloc otherwise);
\* thrown is what internalProcess throws ("none": it returns); `call' keeps
\* the arguments and what internalProcess did ("not invoked": never called)
processData_try(t) ==
    /\ Err(t) /\ ncalls < MaxThreadCalls
    /\ ncalls' = ncalls + 1
    /\ \E data \in {"NULL", "valid"}, size \in 0..1, assignOk \in BOOLEAN,
          thrown \in {"none", "bad_alloc", "unknown"} \cup Whats :
         IF data = "NULL" \/ size = 0
         THEN LET c == [data |-> data, size |-> size, thrown |-> "not invoked"] IN
              IF assignOk
              THEN /\ lastError' = [lastError EXCEPT ![SlotOf(t)] = "Invalid input"]
                   /\ th' = [th EXCEPT ![t] = [@ EXCEPT !.ret = "INVALID_INPUT",
                                                         !.got = "none",
                                                         !.lastFail = "Invalid input",
                                                         !.call = c]]
                   /\ acc' = Touch(acc, <<"lastError", SlotOf(t)>>, "processData", t)
              ELSE /\ th' = [th EXCEPT ![t] = [@ EXCEPT !.pc = "catch", !.pend = "bad_alloc",
                                                         !.got = "none", !.call = c]]
                   /\ UNCHANGED <<lastError, acc>>
         ELSE LET c == [data |-> data, size |-> size, thrown |-> thrown] IN
              IF thrown = "none"
              THEN /\ th' = [th EXCEPT ![t] = [@ EXCEPT !.ret = "SUCCESS", !.got = "none",
                                                         !.call = c]]
                   /\ UNCHANGED <<lastError, acc>>
              ELSE /\ th' = [th EXCEPT ![t] = [@ EXCEPT !.pc = "catch", !.pend = thrown,
                                                         !.got = "none", !.call = c]]
                   /\ UNCHANGED <<lastError, acc>>
    /\ UNCHANGED <<prog, pc>>
    /\ errOnly

\* processData: the catch handler for the pending exception.  When the
\* assignment to lastError throws inside the handler the exception leaves a
\* noexcept function: std::terminate
processData_catch(t) ==
    /\ prog = "errapi" /\ pc = "run" /\ th[t].pc = "catch"
    /\ \E assignOk \in BOOLEAN :
         IF assignOk
         THEN /\ lastError' = [lastError EXCEPT ![SlotOf(t)] = Handler(th[t].pend)[1]]
              /\ th' = [th EXCEPT ![t] = [@ EXCEPT !.pc = "idle", !.pend = "none",
                                                    !.ret = Handler(th[t].pend)[2],
                                                    !.lastFail = Handler(th[t].pend)[1]]]
              /\ acc' = Touch(acc, <<"lastError", SlotOf(t)>>, "processData", t)
              /\ UNCHANGED pc
         ELSE /\ Terminate
              /\ UNCHANGED <<lastError, th, acc>>
    /\ UNCHANGED <<prog, ncalls>>
    /\ errOnly

\* getLastError(): lastError.c_str()
getLastError(t) ==
    /\ Err(t)
    /\ th' = [th EXCEPT ![t].got = lastError[SlotOf(t)]]
    /\ acc' = Touch(acc, <<"lastError", SlotOf(t)>>, "getLastError", t)
    /\ UNCHANGED <<prog, pc, ncalls, lastError>>
    /\ errOnly

----------------------------------------------------------------------------
(* MISRA-C.md, Rule 62 "Decision": renderScene of the graphics DLL          *)

\* thrown is what internalRender throws ("none": it returns)
renderScene(sceneName, thrown) ==
    IF sceneName = "NULL" THEN "RENDER_INVALID_PARAMS"
    ELSE IF thrown = "none" THEN "RENDER_OK"
    ELSE IF thrown = "bad_alloc" THEN "RENDER_OUT_OF_MEMORY"
    ELSE "RENDER_INVALID_PARAMS"

call_renderScene ==
    /\ prog = "render" /\ pc = "api" /\ ncalls < MaxCalls
    /\ \E sceneName \in {"NULL", "valid"}, thrown \in {"none", "bad_alloc", "unknown"} \cup Whats :
         ret' = [call |-> "renderScene", c |-> "none", cpp |-> renderScene(sceneName, thrown)]
    /\ ncalls' = ncalls + 1
    /\ UNCHANGED <<prog, pc, heap, counter, allocFailed, args, succ, acc>>
    /\ moduleOnly

----------------------------------------------------------------------------
(* rule_63/good_example.cpp: mylib over its file-local logger and cache     *)

MAX_RETRIES == 3

TestData == Fill(9, 116)        \* "test data", nine characters

\* the length check written with <= instead of <
isValidInput_le(input) == input # <<>> /\ Len(input) <= 100

isValidInput(input) == input # <<>> /\ Len(input) < 100

\* Logger::log(message)
log(o, message) == Append(o, <<"[LOG]", message>>)

logError(o, error) == log(o, <<"ERROR", error>>)

RECURSIVE Attempts(_, _)
Attempts(o, i) ==
    IF i >= MAX_RETRIES THEN o ELSE Attempts(log(o, <<"Attempt", i + 1>>), i + 1)

MyLib == prog = "mylib" /\ pc = "api" /\ ncalls < MaxCalls

\* mylib::processData(data)
mylib_processData ==
    /\ MyLib
    /\ \E data \in {<<>>, TestData, Fill(99, 120), Fill(100, 120)} :
         /\ out' = IF ~isValidInput(data)
                   THEN logError(out, "Invalid input")
                   ELSE Attempts(log(out, <<"Processing", data>>), 0)
         /\ args' = [data |-> data, length |-> Len(data)]
    /\ ncalls' = ncalls + 1
    /\ UNCHANGED <<prog, pc, cache, acc>>
    /\ mylibOnly

\* mylib::cacheData(key, value)
mylib_cacheData ==
    /\ MyLib
    /\ \E key \in {"key1", "key2"} :
         /\ cache' = Append(cache, [key |-> key, value |-> "value1", timestamp |-> 0])
         /\ out' = log(out, <<"Cached", key>>)
    /\ acc' = Touch(acc, <<"cache", "mylib">>, "cacheData", "main")
    /\ ncalls' = ncalls + 1
    /\ UNCHANGED <<prog, pc, args>>
    /\ mylibOnly

----------------------------------------------------------------------------
(* Translation units, object files and the link (rules 61 and 63)           *)
(*                                                                          *)
(* An entity is [name, linkage, inline, def, value]: def tells a definition *)
(* from a mere declaration.  Compiling a translation unit puts into its     *)
(* object file every definition of the headers it includes and its own.     *)
(* The linker counts, per external-linkage name, the object files defining  *)
(* it; the definitions of an inline entity are merged into one.             *)

Ent(n, l, i, d, v) == [name |-> n, linkage |-> l, inline |-> i, def |-> d, value |-> v]

\* MISRA-C.md, Rule 61 "Example (bad)": header.h
BadHeader ==
    {Ent("globalVar", "external", FALSE, TRUE, "0"),
     Ent("func", "external", FALSE, TRUE, ""),
     Ent("staticVar", "internal", FALSE, TRUE, "0"),
     Ent("MyClass::memberFunc", "external", TRUE, TRUE, "")}

\* a header.h that defines globalVar instead of declaring it extern
GoodHeaderDefiningVar ==
    {Ent("globalVar", "external", FALSE, TRUE, "0"),
     Ent("func", "external", FALSE, FALSE, ""),
     Ent("inlineFunc", "external", TRUE, TRUE, ""),
     Ent("templateFunc", "external", TRUE, TRUE, ""),
     Ent("constantValue", "external", TRUE, TRUE, "42"),
     Ent("MyClass::memberFunc", "external", FALSE, FALSE, "")}

\* MISRA-C.md, Rule 61 "Example (good)": header.h
GoodHeader ==
    {Ent("globalVar", "external", FALSE, FALSE, ""),
     Ent("func", "external", FALSE, FALSE, ""),
     Ent("inlineFunc", "external", TRUE, TRUE, ""),
     Ent("templateFunc", "external", TRUE, TRUE, ""),
     Ent("constantValue", "external", TRUE, TRUE, "42"),
     Ent("MyClass::memberFunc", "external", FALSE, FALSE, "")}

\* ... and its source.cpp
SourceCpp ==
    {Ent("globalVar", "external", FALSE, TRUE, "0"),
     Ent("func", "external", FALSE, TRUE, ""),
     Ent("MyClass::memberFunc", "external", FALSE, TRUE, "")}

\* linkage of what a translation unit declares in an unnamed namespace,
\* were the namespace { } around the internals left out
NamedLinkage == "external"

\* rule_63/comparison.cpp: "Everything here has internal linkage"
UnnamedLinkage == "internal"

\* rule_63/comparison.cpp: module_a.cpp and the module_b.cpp of its comment
ModuleACpp ==
    {Ent("InternalHelper::doWork", UnnamedLinkage, TRUE, TRUE, "Module A helper"),
     Ent("internalFunction", UnnamedLinkage, FALSE, TRUE, "Module A internal function"),
     Ent("INTERNAL_CONSTANT", UnnamedLinkage, FALSE, TRUE, "42"),
     Ent("helper", UnnamedLinkage, FALSE, TRUE, "InternalHelper"),
     Ent("module_a::publicFunction", "external", FALSE, TRUE, ""),
     Ent("main", "external", FALSE, TRUE, "")}

ModuleBCpp ==
    {Ent("InternalHelper::doWork", UnnamedLinkage, TRUE, TRUE, "Module B helper"),
     Ent("internalFunction", UnnamedLinkage, FALSE, TRUE, "Module B internal function"),
     Ent("INTERNAL_CONSTANT", UnnamedLinkage, FALSE, TRUE, "99"),
     Ent("helper", UnnamedLinkage, FALSE, TRUE, "InternalHelper"),
     Ent("module_b::publicFunction", "external", FALSE, TRUE, "")}

HeaderOf(p) ==
    CASE p = "odr_bad"  -> BadHeader
      [] p = "odr_good" -> GoodHeader
      [] OTHER          -> {}

TU(n, h, o) == [name |-> n, hdr |-> h, own |-> o]

\* the translation units a build starts from
InitialTUs(p) ==
    CASE p = "odr_good" -> <<TU("source.cpp", TRUE, SourceCpp)>>
      [] p = "linkage"  -> <<TU("module_a.cpp", FALSE, ModuleACpp),
                             TU("module_b.cpp", FALSE, ModuleBCpp)>>
      [] OTHER          -> <<>>

Building == prog \in {"odr_bad", "odr_good", "linkage"} /\ pc = "build"

\* one more .cpp file of user code, which may #include "header.h"
AddTU ==
    /\ Building /\ prog # "linkage" /\ status = "none"
    /\ ncalls < MaxTUs
    /\ \E includes \in BOOLEAN :
         tus' = Append(tus, TU(<<"user", ncalls + 1>>, includes, {}))
    /\ ncalls' = ncalls + 1
    /\ UNCHANGED <<prog, pc, out, objs, symtab, status>>
    /\ buildOnly

\* the definitions the compiler emits for translation unit tu
ObjectOf(tu, header) == {e \in header : tu.hdr /\ e.def} \cup {e \in tu.own : e.def}

Compile(i) ==
    /\ Building /\ status = "none"
    /\ i \in DOMAIN tus /\ i \notin DOMAIN objs
    /\ objs' = Bind(objs, i, ObjectOf(tus[i], HeaderOf(prog)))
    /\ UNCHANGED <<prog, pc, out, ncalls, tus, symtab, status>>
    /\ buildOnly

ExternalNames(o) == {e.name : e \in {x \in UNION {o[i] : i \in DOMAIN o} : x.linkage = "external"}}

\* the number of definitions of external name n the linked program contains
DefCount(o, n) ==
    LET definers == {i \in DOMAIN o : \E e \in o[i] : e.name = n /\ e.linkage = "external"}
        inl == \A i \in definers : \A e \in o[i] : e.name = n => e.inline
    IN IF inl THEN 1 ELSE Cardinality(definers)

Link ==
    /\ Building /\ status = "none"
    /\ tus # <<>> /\ DOMAIN objs = DOMAIN tus
    /\ symtab' = [n \in ExternalNames(objs) |-> DefCount(objs, n)]
    /\ status' = IF \A n \in ExternalNames(objs) : DefCount(objs, n) = 1
                 THEN "linked" ELSE "multiple definition"
    /\ UNCHANGED <<prog, pc, out, ncalls, tus, objs>>
    /\ buildOnly

\* the definition a use of name n inside translation unit i refers to
Resolve(o, i, n) ==
    IF \E e \in o[i] : e.name = n
    THEN CHOOSE e \in o[i] : e.name = n
    ELSE CHOOSE e \in UNION {o[j] : j \in DOMAIN o} : e.name = n /\ e.linkage = "external"

\* module_a::publicFunction / module_b::publicFunction of the linked program
publicFunction(i) ==
    /\ prog = "linkage" /\ pc = "build" /\ status = "linked"
    /\ i \in DOMAIN tus /\ ncalls < MaxCalls
    /\ out' = out \o <<[tu |-> tus[i].name, text |-> Resolve(objs, i, "internalFunction").value],
                        [tu |-> tus[i].name,
                         text |-> Resolve(objs, i, Resolve(objs, i, "helper").value \o "::doWork").value],
                        [tu |-> tus[i].name, text |-> Resolve(objs, i, "INTERNAL_CONSTANT").value]>>
    /\ ncalls' = ncalls + 1
    /\ UNCHANGED <<prog, pc, tus, objs, symtab, status>>
    /\ buildOnly

----------------------------------------------------------------------------
(* Name lookup for calls on geometry::Point arguments (rule 57)             *)

Decl(n, ns) == [name |-> n, ns |-> ns]

\* good_example.cpp with distance moved out of geometry
GoodDeclsDistanceElsewhere ==
    {Decl("Point", "geometry"), Decl("distance", "utility"),
     Decl("midpoint", "geometry"), Decl("operator<<", "geometry")}

\* rule_57/good_example.cpp
GoodDecls ==
    {Decl("Point", "geometry"), Decl("distance", "geometry"),
     Decl("midpoint", "geometry"), Decl("operator<<", "geometry")}

\* the bad example of rule 57: distance at global scope, midpoint in utilities
BadDecls ==
    {Decl("Point", "geometry"), Decl("distance", "::"), Decl("midpoint", "utilities")}

\* MISRA-C.md, Rule 57 "Example (bad)"
MisraBadDecls == {Decl("Point", "geometry"), Decl("distance", "utility")}

DeclsOf(variant) ==
    CASE variant = "good"  -> GoodDecls
      [] variant = "bad"   -> BadDecls
      [] variant = "misra" -> MisraBadDecls

\* the namespaces argument-dependent lookup searches for arguments of type ty
AssociatedNamespaces(decls, ty) == {d.ns : d \in {x \in decls : x.name = ty}}

\* the declarations a call name(p1, p2) in main (global scope) finds, the
\* arguments being of type argType; qual = "none" for an unqualified call
Lookup(decls, qual, name, argType) ==
    IF qual # "none"
    THEN {d \in decls : d.name = name /\ d.ns = qual}
    ELSE {d \in decls : d.name = name /\ d.ns = "::"}
         \cup {d \in decls : d.name = name /\ d.ns \in AssociatedNamespaces(decls, argType)}

call ==
    /\ prog = "lookup" /\ pc = "api"
    /\ \E variant \in {"good", "bad", "misra"}, name \in {"distance", "midpoint"},
          qual \in {"none", "::", "geometry", "utility", "utilities"} :
         resolved' = [variant |-> variant, name |-> name, qual |-> qual,
                      found |-> Lookup(DeclsOf(variant), qual, name, "Point")]
    /\ UNCHANGED <<prog, pc, ncalls>>
    /\ lookupOnly

----------------------------------------------------------------------------

vars == <<prog, pc, heap, ref, mem, out, ncalls, counter, ret, allocFailed,
          args, succ, acc, lastError, th, cache, tus, objs, symtab, status, resolved>>

Programs ==
    {"good60", "bad60", "bad60api", "module", "errapi", "render", "mylib",
     "odr_bad", "odr_good", "linkage", "lookup", "pdapi", "scapi"}

StartOf(p) ==
    CASE p = "good60" -> "ex1_create"
      [] p = "bad60"  -> "b1_create"
      [] p = "errapi" -> "run"
      [] p \in {"odr_bad", "odr_good", "linkage"} -> "build"
      [] OTHER        -> "api"

\* internalCounter when a run starts: 0 (static initialisation), and for
\* the two modules also the value INT32_MAX - 1 successful process calls
\* leave (the heap records of those calls are not kept)
StartCounts(p) == IF p = "module" THEN {0, INT32_MAX - 1} ELSE {0}

Init ==
    /\ prog \in Programs
    /\ pc = StartOf(prog)
    /\ heap = <<>>
    /\ ref = NoRefs
    /\ mem = NoRefs
    /\ out = <<>>
    /\ ncalls = 0
    /\ \E n \in StartCounts(prog) :
          /\ counter = [c |-> n, cpp |-> n]
          /\ ret = IF n = 0 THEN [call |-> "none", c |-> "none", cpp |-> "none"]
                   ELSE [call |-> "process", c |-> "MODULE_SUCCESS", cpp |-> "SUCCESS"]
          /\ args = IF n = 0 THEN NoArgs ELSE [data |-> "valid", length |-> 1]
          /\ succ = [before |-> n, c |-> 0, cpp |-> 0]
          /\ acc = IF n = 0 THEN [v \in NamespaceVars |-> {}]
                   ELSE Touch(Touch([v \in NamespaceVars |-> {}],
                                    <<"internalCounter", "module.c">>,
                                    "module_process", "main"),
                              <<"internalCounter", "module.cpp">>,
                              "module::process", "main")
    /\ allocFailed = FALSE
    /\ lastError = [t \in Threads |-> ""]
    /\ th = [t \in Threads |-> Idle]
    /\ cache = <<>>
    /\ tus = InitialTUs(prog)
    /\ objs = NoRefs
    /\ symtab = NoRefs
    /\ status = "none"
    /\ resolved = [variant |-> "none", name |-> "none", qual |-> "none", found |-> {}]

Next ==
    \/ useBuffer_create \/ useBuffer_size \/ useBuffer_destroy
    \/ Data_ctor \/ Data_setValue \/ Data_getValue \/ Data_dtor
    \/ useResource_make \/ useResource_use \/ useResource_exit
    \/ useProcessData_alloc \/ useProcessData_process
    \/ useProcessData_print \/ useProcessData_delete
    \/ useProcessor_create \/ useProcessor_process \/ useProcessor_release
    \/ SafeContainer_ctor \/ SafeContainer_set \/ SafeContainer_get \/ SafeContainer_dtor
    \/ call_processData \/ query_then_process
    \/ container_new \/ container_set \/ container_get
    \/ container_move \/ container_destroy
    \/ createBuffer \/ main_deleteBuf \/ processAndCleanup
    \/ createString \/ useString
    \/ DataContainer_create \/ main_deleteContainer \/ processContainer
    \/ allocateString \/ deleteString
    \/ createArray \/ cleanupArray
    \/ bad_useProcessor
    \/ initialize \/ process \/ cleanup
    \/ \E t \in Threads : processData_try(t)
    \/ \E t \in Threads : processData_catch(t)
    \/ \E t \in Threads : getLastError(t)
    \/ call_renderScene
    \/ mylib_processData \/ mylib_cacheData
    \/ AddTU
    \/ \E i \in 1..(MaxTUs + 1) : Compile(i)
    \/ Link
    \/ \E i \in 1..2 : publicFunction(i)
    \/ call

Spec == Init /\ [][Next]_vars

----------------------------------------------------------------------------
(* Properties *)

\* every delete-expression applied to object i sits in the namespace that allocated it
SameModule(i) == \A j \in DOMAIN heap[i].frees : heap[i].frees[j].m = heap[i].by

\* C1: in good_example.cpp every heap object created during main is
\* deallocated by code of the namespace that allocated it; no module ever
\* deallocates another module's memory.
C1_SameModuleDeallocation ==
    prog = "good60" => \A i \in DOMAIN heap : SameModule(i)

\* main has returned with all seven objects allocated and released
C1_Witness ==
    /\ prog = "good60" /\ pc = "done"
    /\ {heap[i].kind : i \in DOMAIN heap} =
          {"Buffer", "Buffer.data_", "DataImpl", "Resource", "char[]",
           "ImageProcessorImpl", "int[]"}
    /\ \A i \in DOMAIN heap : Len(heap[i].frees) = 1
    /\ \E i \in DOMAIN heap : heap[i].by = "module_b"

\* C2: no exception ever escapes a noexcept module-boundary function
\* (module::initialize / process / cleanup, processData, getLastError,
\* renderScene): whatever is raised in the body or in a catch handler is
\* turned into an error code, so std::terminate is never reached.
C2_NoExceptionEscapes ==
    prog \in {"module", "errapi", "render"} => pc # "terminated"

\* C3: getLastError called in a thread returns the message written by that
\* thread's most recent failing processData call, never another thread's.
C3_OwnThreadMessage ==
    prog = "errapi" =>
        \A t \in Threads : th[t].got # "none" => th[t].got = th[t].lastFail

\* a thread has read back its own message while another thread's last
\* failure left a different message
C3_Witness ==
    /\ prog = "errapi"
    /\ \E t, u \in Threads :
          /\ t # u
          /\ th[t].got \notin {"none", ""}
          /\ th[t].got = th[t].lastFail
          /\ th[u].lastFail \notin {"", th[t].got}
          /\ lastError[SlotOf(u)] = th[u].lastFail

\* C4: in bad_example.cpp's main every object obtained from module_a is
\* cleaned up in the module that allocated it (no cross-module deallocation).
C4_MainCleansUpInAllocatingModule ==
    prog = "bad60" => \A i \in DOMAIN heap : SameModule(i)

Consumers ==
    {"processAndCleanup", "useString", "processContainer", "deleteString",
     "cleanupArray", "useProcessor"}

\* C5: each of processAndCleanup, useString, processContainer, deleteString,
\* cleanupArray and client_code::useProcessor, handed an object its factory
\* created, deallocates it in a module other than the allocating one.
C5_ConsumersDeallocateCrossModule ==
    (prog = "bad60api" /\ pc = "api") =>
        \A i \in DOMAIN heap :
            /\ Len(heap[i].frees) = 1
            /\ heap[i].frees[1].f \in Consumers
            /\ heap[i].frees[1].m # heap[i].by

\* three different consumers have each deallocated another module's object
C5_Witness ==
    /\ prog = "bad60api" /\ pc = "api"
    /\ Cardinality({heap[i].frees[1].f : i \in {k \in DOMAIN heap : heap[k].frees # <<>>}}) >= 3
    /\ \E i \in DOMAIN heap : heap[i].kind = "DataContainer.data"

\* the two return values denote corresponding codes
Corresponding(r) ==
    \/ r.call = "none"
    \/ r.c = "void" /\ r.cpp = "void"
    \/ r.c # "void" /\ r.cpp # "void" /\ CVal(r.c) = CppVal(r.cpp)

\* C6: module.cpp is equivalent to module.c: over any sequence of calls with
\* the same arguments in which no allocation fails, corresponding calls
\* return corresponding codes and the two internalCounter values are equal.
C6_ModulesEquivalent ==
    (prog = "module" /\ ~allocFailed) =>
        counter.c = counter.cpp /\ Corresponding(ret)

\* two successful process calls followed by a rejected one
C6_Witness ==
    /\ prog = "module" /\ ~allocFailed
    /\ counter.cpp = 2 /\ counter.c = 2
    /\ ret = [call |-> "process", c |-> "MODULE_ERR_INVALID_INPUT", cpp |-> "INVALID_INPUT"]

Includers == {i \in DOMAIN tus : tus[i].hdr}

\* C7: One Definition Rule for headers.  A header that defines a non-inline
\* external-linkage function or variable and is included by two or more
\* translation units gives the linked program more than one definition of
\* it; when the header only declares the entity and one .cpp file defines
\* it, every external-linkage entity has exactly one definition however
\* many translation units include the header.
C7_OneDefinitionRule ==
    /\ (prog \in {"odr_bad", "odr_good"} /\ status # "none" /\ Cardinality(Includers) >= 2) =>
          \A e \in HeaderOf(prog) :
              (e.def /\ ~e.inline /\ e.linkage = "external") => symtab[e.name] > 1
    /\ (prog = "odr_bad" /\ status # "none" /\ Cardinality(Includers) >= 2) =>
          symtab["globalVar"] > 1 /\ symtab["func"] > 1
    /\ (prog = "odr_good" /\ status # "none") =>
          /\ {"globalVar", "func", "MyClass::memberFunc"} \subseteq DOMAIN symtab
          /\ \A n \in DOMAIN symtab : symtab[n] = 1

\* the bad header included by all of three translation units, then linked
C7_Witness ==
    /\ prog = "odr_bad" /\ status = "multiple definition"
    /\ Cardinality(Includers) >= 3
    /\ symtab["globalVar"] = Cardinality(Includers)

UnnamedNames == {"InternalHelper::doWork", "internalFunction", "INTERNAL_CONSTANT", "helper"}

TextsOf(tu) ==
    IF tu = "module_a.cpp"
    THEN {"Module A internal function", "Module A helper", "42"}
    ELSE {"Module B internal function", "Module B helper", "99"}

\* C8: entities of an unnamed namespace have internal linkage: module_a.cpp
\* and module_b.cpp, each defining InternalHelper, internalFunction,
\* INTERNAL_CONSTANT and helper, link without conflict, and each unit's
\* publicFunction uses its own unit's definitions (42 in module_a, 99 in
\* module_b).
C8_UnnamedNamespaceInternalLinkage ==
    prog = "linkage" =>
        /\ status # "multiple definition"
        /\ status = "linked" => UnnamedNames \cap DOMAIN symtab = {}
        /\ \A k \in DOMAIN out : out[k].text \in TextsOf(out[k].tu)

\* both units linked, and each publicFunction has printed its own constant
C8_Witness ==
    /\ prog = "linkage" /\ status = "linked"
    /\ \E k \in DOMAIN out : out[k] = [tu |-> "module_a.cpp", text |-> "42"]
    /\ \E k \in DOMAIN out : out[k] = [tu |-> "module_b.cpp", text |-> "99"]

\* C9: an unqualified call distance(p1, p2) or midpoint(p1, p2) on
\* geometry::Point arguments resolves to the function of namespace geometry
\* when the function is declared there, and finds nothing when the function
\* is declared in utility / utilities, where only the qualified call
\* resolves.
C9_ArgumentDependentLookup ==
    (prog = "lookup" /\ resolved.variant # "none") =>
        /\ (resolved.variant = "good" /\ resolved.qual = "none") =>
              resolved.found = {Decl(resolved.name, "geometry")}
        /\ (resolved.variant = "bad" /\ resolved.name = "midpoint") =>
              /\ resolved.qual = "none" => resolved.found = {}
              /\ resolved.qual = "utilities" => resolved.found = {Decl("midpoint", "utilities")}
        /\ (resolved.variant = "misra" /\ resolved.name = "distance") =>
              /\ resolved.qual = "none" => resolved.found = {}
              /\ resolved.qual = "utility" => resolved.found = {Decl("distance", "utility")}

\* the unqualified distance(p1, p2) of good_example.cpp's main
C9_Witness ==
    /\ prog = "lookup"
    /\ resolved = [variant |-> "good", name |-> "distance", qual |-> "none",
                   found |-> {Decl("distance", "geometry")}]

Ops(v) == {x[1] : x \in acc[v]}
ThreadsOf(v) == {x[2] : x \in acc[v]}

----------------------------------------------------------------------------
(* module_a::processData and getRequiredBufferSize *)

Called(f) == prog = "pdapi" /\ "call" \in DOMAIN mem /\ mem["call"].fn \in f

\* C11: processData returns false and leaves every byte of outputBuffer
\* unchanged whenever strlen(input) >= bufferSize (bufferSize = 0 included);
\* it returns true exactly when strlen(input) < bufferSize.
C11_RejectsAndLeavesBufferAlone ==
    Called({"processData"}) =>
        LET c == mem["call"] IN
        /\ Len(c.input) >= c.bufferSize => (~c.ok /\ c.after = c.before)
        /\ c.ok <=> Len(c.input) < c.bufferSize

\* a two-character input was refused for a buffer of exactly two bytes
C11_Witness ==
    /\ Called({"processData"})
    /\ Len(mem["call"].input) = 2 /\ mem["call"].bufferSize = 2
    /\ ~mem["call"].ok
    /\ mem["call"].after = mem["call"].before

\* C12: when processData returns true it writes only indices
\* 0..strlen(input) of outputBuffer, none of them >= bufferSize, leaves
\* outputBuffer[strlen(input)] as the NUL terminator and byte i <
\* strlen(input) as the upper-case form of input[i]; it allocates and
\* frees nothing.
C12_WritesWithinBufferUpperCased ==
    Called({"processData"}) =>
        LET c == mem["call"]
            n == Len(c.input) IN
        /\ heap = <<>>
        /\ c.ok =>
              /\ n + 1 <= c.bufferSize
              /\ \A i \in DOMAIN c.after :
                    i > n + 1 => c.after[i] = c.before[i]
              /\ c.after[n + 1] = 0
              /\ \A i \in 1..n : c.after[i] = ToUpper(c.input[i])

\* "a1" was written as "A1" and its terminator into a buffer of three bytes
C12_Witness ==
    /\ Called({"processData"})
    /\ mem["call"].ok
    /\ mem["call"].input = <<97, 49>>
    /\ mem["call"].before = <<120, 120, 120, 120>>
    /\ mem["call"].after = <<65, 49, 0, 120>>

\* C13: a buffer of getRequiredBufferSize(input) bytes always makes
\* processData return true, and a buffer one byte smaller always makes it
\* return false.
C13_QueriedSizeIsExactlyEnough ==
    /\ Called({"query then process"}) =>
          /\ mem["call"].ok
          /\ mem["call"].bufferSize = Len(mem["call"].input) + 1
    /\ Called({"one byte smaller"}) => ~mem["call"].ok

\* the queried size served an input of the greatest length
C13_Witness ==
    /\ Called({"query then process"})
    /\ Len(mem["call"].input) = MaxInput
    /\ mem["call"].ok
    /\ mem["call"].after[MaxInput + 1] = 0

----------------------------------------------------------------------------
(* rule_60/good_example.cpp: lifetimes *)

Objects(k) == {i \in DOMAIN heap : heap[i].kind = k}

\* C14: the ResourcePtr returned by makeResource(id) invokes
\* module_a::destroyResource exactly once, on the Resource createResource
\* allocated, when the owning scope exits: the resource is alive through
\* its last use in useResource and is never destroyed twice.
C14_ResourceDestroyedOnceAtScopeExit ==
    prog = "good60" =>
        \A i \in Objects("Resource") :
            /\ heap[i].fn = "createResource"
            /\ ~heap[i].uaf
            /\ pc \in {"ex3_use", "ex3_exit"} => heap[i].frees = <<>>
            /\ pc \notin {"ex3_use", "ex3_exit"} =>
                  heap[i].frees = <<[m |-> "module_a", f |-> "destroyResource"]>>

\* useResource has printed the resource's text and left its scope
C14_Witness ==
    /\ prog = "good60" /\ pc = "ex4_alloc"
    /\ ref["resource"] = 0 /\ ref["makeResource.result"] = 0
    /\ \E k \in DOMAIN out : out[k] = mem["resource.id"]
    /\ \E i \in Objects("Resource") : Len(heap[i].frees) = 1

\* (the processor's line is the fifth main prints)
\* C15: in client_code::useProcessor process() is called before release(),
\* release() is called exactly once and deletes the processor inside
\* dll_interface, and no member of the processor is used after release().
C15_SelfReleaseProtocol ==
    prog = "good60" =>
        \A i \in Objects("ImageProcessorImpl") :
            /\ heap[i].by = "dll_interface"
            /\ ~heap[i].uaf
            /\ pc \in {"ex5_process", "ex5_release"} => heap[i].frees = <<>>
            /\ pc \notin {"ex5_process", "ex5_release"} =>
                  /\ heap[i].frees =
                        <<[m |-> "dll_interface", f |-> "ImageProcessorImpl::release"]>>
                  /\ Len(out) >= 5 /\ out[5] = "Processing image in DLL..."

\* the processor has processed and then released itself
C15_Witness ==
    /\ prog = "good60" /\ pc = "ex6_ctor"
    /\ out[Len(out)] = "Processing image in DLL..."
    /\ heap[ref["proc"]].frees # <<>>
    /\ heap[ref["proc"]].fn = "createProcessor"

\* C20: when good_example.cpp's main returns, every heap allocation of the
\* run has been freed exactly once; at no point of the run is an object
\* freed twice or accessed after it was freed.
C20_NoLeakNoDoubleFreeNoUseAfterFree ==
    prog = "good60" =>
        /\ \A i \in DOMAIN heap : Len(heap[i].frees) <= 1 /\ ~heap[i].uaf
        /\ pc = "done" => \A i \in DOMAIN heap : Len(heap[i].frees) = 1

\* main has returned after all six examples, the last one printing 100
C20_Witness ==
    /\ prog = "good60" /\ pc = "done"
    /\ Len(heap) = 7
    /\ Len(out) = 6 /\ out[6] = 100
    /\ \A i \in DOMAIN heap : heap[i].frees # <<>>

----------------------------------------------------------------------------
(* MISRA-C.md, Rule 62 "Example (good)": the codes processData returns *)

Returned(t) == th[t].pc = "idle" /\ th[t].call # NoCall

\* C16: processData(data, size) returns INVALID_INPUT with lastError =
\* "Invalid input" when data is null or size is 0, without invoking
\* internalProcess; SUCCESS when internalProcess returns; OUT_OF_MEMORY with
\* lastError = "Out of memory" when it throws std::bad_alloc;
\* PROCESSING_ERROR with lastError = e.what() for any other std::exception
\* and with lastError = "Unknown error" for anything else thrown.
C16_OutcomeToCode ==
    prog = "errapi" =>
        /\ pc # "terminated"
        /\ \A t \in Threads : Returned(t) =>
              LET c == th[t].call
                  e == lastError[SlotOf(t)] IN
              /\ (c.data = "NULL" \/ c.size = 0) =>
                    /\ c.thrown = "not invoked"
                    /\ th[t].ret = "INVALID_INPUT" /\ e = "Invalid input"
              /\ c.thrown = "none" => th[t].ret = "SUCCESS"
              /\ c.thrown = "bad_alloc" =>
                    th[t].ret = "OUT_OF_MEMORY" /\ e = "Out of memory"
              /\ c.thrown \in Whats =>
                    th[t].ret = "PROCESSING_ERROR" /\ e = c.thrown
              /\ c.thrown = "unknown" =>
                    th[t].ret = "PROCESSING_ERROR" /\ e = "Unknown error"

----------------------------------------------------------------------------
(* MISRA-C.md, module.c / module.cpp: process *)

ProcessStep == prog = "module" /\ ncalls' = ncalls + 1 /\ ret'.call = "process"

\* one ++ in int32_t arithmetic
Incremented(before, after) ==
    IF before = INT32_MAX THEN after = INT32_MIN ELSE after = before + 1

C18_BufferManagerReleased ==
    /\ [](prog = "module" =>
            \A i \in DOMAIN heap :
                /\ heap[i].by = "module"
                /\ ~heap[i].uaf
                /\ heap[i].frees =
                      <<[m |-> "module", f |-> "BufferManager::~BufferManager"]>>)
    /\ [][ProcessStep =>
            /\ ret'.cpp = "SUCCESS" =>
                  /\ Len(heap') = Len(heap) + 1
                  /\ heap'[Len(heap')].fn = "BufferManager::BufferManager"
            /\ ret'.cpp # "SUCCESS" => heap' = heap]_vars

\* a successful call released its buffer, and a later call whose allocation
\* failed left the heap alone
C18_Witness ==
    /\ prog = "module"
    /\ ret.call = "process" /\ ret.cpp = "OUT_OF_MEMORY"
    /\ Len(heap) = 1
    /\ Len(heap[1].frees) = 1

----------------------------------------------------------------------------
(* rule_63/good_example.cpp: what mylib::processData logs *)

Line(message) == <<"[LOG]", message>>

\* a step of mylib::processData (cacheData appends to the cache)
MyLibProcessDataStep == prog = "mylib" /\ ncalls' = ncalls + 1 /\ cache' = cache

\* C19: mylib::processData(data) emits the one log line "[LOG] ERROR:
\* Invalid input" and no attempt lines when data is empty or of length >=
\* 100; otherwise it emits "[LOG] Processing: <data>" followed by exactly
\* MAX_RETRIES = 3 log lines "Attempt 1", "Attempt 2", "Attempt 3" in that
\* order.  Length 99 is accepted, length 100 rejected.
C19_LogLinesOfProcessData ==
    [][MyLibProcessDataStep =>
          LET data == args'.data IN
          IF data = <<>> \/ Len(data) >= 100
          THEN out' = out \o <<Line(<<"ERROR", "Invalid input">>)>>
          ELSE out' = out \o <<Line(<<"Processing", data>>),
                               Line(<<"Attempt", 1>>),
                               Line(<<"Attempt", 2>>),
                               Line(<<"Attempt", 3>>)>>]_vars

\* one input was refused, then a string of 99 characters was processed in
\* three attempts
C19_Witness ==
    /\ prog = "mylib" /\ ncalls = 2
    /\ Len(args.data) = 99
    /\ Len(out) = 5
    /\ out[1] = Line(<<"ERROR", "Invalid input">>)
    /\ out[2] = Line(<<"Processing", args.data>>)
    /\ out[5] = Line(<<"Attempt", 3>>)

----------------------------------------------------------------------------
(* MISRA-C.md, module.c / module.cpp: what internalCounter holds *)

\* v is the number before + k of successful calls (a number no int32_t
\* holds when it exceeds INT32_MAX)
IsCount(v, before, k) == k <= INT32_MAX - before /\ v = before + k

\* C21: after any sequence of initialize, process and cleanup calls
\* internalCounter equals the number of successful process calls made
\* since the most recent initialize or cleanup (0 if none) and is never
\* negative, in module.c and in module.cpp.
C21_CounterCountsSuccessfulCalls ==
    prog = "module" =>
        /\ counter.c >= 0 /\ counter.cpp >= 0
        /\ IsCount(counter.c, succ.before, succ.c)
        /\ IsCount(counter.cpp, succ.before, succ.cpp)

----------------------------------------------------------------------------
(* MISRA-C.md, Rule 62 "Example (good)": lastError across successful calls *)

\* a step in which thread t's processData returned SUCCESS
SuccessStep(t) ==
    /\ prog = "errapi" /\ ncalls' = ncalls + 1
    /\ th[t].pc = "idle" /\ th'[t].pc = "idle" /\ th'[t].ret = "SUCCESS"
    /\ \A u \in Threads \ {t} : th'[u] = th[u]

\* C22: a successful processData call leaves lastError unchanged:
\* getLastError called after a SUCCESS return yields the message of the
\* thread's most recent earlier failing call, or the empty string if there
\* was none.
C22_SuccessKeepsLastError ==
    /\ [][\A t \in Threads :
            SuccessStep(t) => lastError'[SlotOf(t)] = lastError[SlotOf(t)]]_vars
    /\ [](prog = "errapi" =>
            \A t \in Threads :
                (Returned(t) /\ th[t].ret = "SUCCESS") =>
                    /\ lastError[SlotOf(t)] = th[t].lastFail
                    /\ th[t].got # "none" => th[t].got = th[t].lastFail)

\* a thread failed, then succeeded, then read back the failure's message
C22_Witness ==
    /\ prog = "errapi"
    /\ \E t \in Threads :
          /\ Returned(t) /\ th[t].ret = "SUCCESS" /\ th[t].call.thrown = "none"
          /\ th[t].lastFail \in Whats
          /\ th[t].got = th[t].lastFail

----------------------------------------------------------------------------
(* rule_60/good_example.cpp: SafeContainer *)

Containers == {"source", "dest"} \cap DOMAIN mem

\* a step that calls set or get
ContainerStep(fn) == prog = "scapi" /\ ncalls' = ncalls + 1 /\ mem'["op"].fn = fn

C24_MoveTransfersOwnership ==
    /\ [](prog = "scapi" /\ "dest" \in DOMAIN mem =>
            /\ pc \in {"moved", "destroyed"}
            /\ mem["source"] = [data |-> NullData, size |-> 0]
            /\ ref["source"] = 0
            /\ ref["dest"] = 1 /\ heap[1].fn = "SafeContainer::SafeContainer"
            /\ mem["dest"].size = mem["n"]
            /\ (mem["op"].on = "source" /\ mem["op"].fn = "get") => mem["op"].result = 0
            /\ pc = "destroyed" =>
                  heap[1].frees =
                     <<[m |-> "module_a", f |-> "SafeContainer::~SafeContainer"]>>)
    /\ [][(prog = "scapi" /\ pc = "live" /\ pc' = "moved") =>
            /\ mem'["dest"] = mem["source"]
            /\ ref'["dest"] = ref["source"]]_vars
    /\ [][(ContainerStep("set") /\ pc = "moved" /\ mem'["op"].on = "source") =>
            /\ mem'["source"] = mem["source"]
            /\ mem'["dest"] = mem["dest"]
            /\ heap' = heap]_vars

\* a container holding 7 was moved from, get on it then returned 0, and
\* both objects were destroyed
C24_Witness ==
    /\ prog = "scapi" /\ pc = "destroyed" /\ "dest" \in DOMAIN mem
    /\ mem["op"].fn = "get" /\ mem["op"].on = "source" /\ mem["op"].result = 0
    /\ mem["n"] > 0 /\ mem["dest"].data[1] = 7
    /\ Len(heap[1].frees) = 1

====
